---- MODULE Spec2Model ----
(***************************************************************************)
(* TSIM - Thermal Sensor Interface Module (Rust example of OSQAr).         *)
(* Model of examples/rust/implementation/src/lib.rs:                       *)
(*   adc_to_temp_x10     pure conversion, u16 -> i16                       *)
(*   Filter              5-sample moving average (new, update)             *)
(*   StateMachine        threshold + hysteresis (new, evaluate)            *)
(* Three specifications drive the three components separately:            *)
(*   SpecConv, SpecFilter, SpecSM.                                         *)
(* Spec drives the three together, one raw sample per step.                *)
(***************************************************************************)
EXTENDS Integers, Sequences, FiniteSets

VARIABLES
    adc_counts,   \* argument of the latest adc_to_temp_x10 call
    temp_x10,     \* its return value, None before the first call
    prev_adc,     \* argument of the call before it, None if there was none
    prev_temp,    \* return value of the call before it
    raws,         \* history: every raw sample given to the pipeline
    window,       \* Filter.window : [0..4 -> i16]
    count,        \* Filter.count
    index,        \* Filter.index
    sum,          \* Filter.sum (i32)
    out,          \* return value of the latest Filter::update, None before it
    fed,          \* history: every sample passed to update, oldest first
    high_x10,     \* StateMachine.high_x10
    low_x10,      \* StateMachine.low_x10
    state,        \* StateMachine.state
    ret,          \* return value of the latest evaluate, None before it
    arg,          \* argument of the latest evaluate, None before it
    before,       \* StateMachine.state when the latest evaluate was entered
    band_from,    \* state when the current run of in-band evaluations began
    band_run,     \* length of the current run of in-band evaluations
    last_out      \* latest evaluated temperature outside the open band

conv_vars   == <<adc_counts, temp_x10, prev_adc, prev_temp, raws>>
filter_vars == <<window, count, index, sum, out, fed>>
sm_vars     == <<high_x10, low_x10, state, ret, arg, before, band_from, band_run,
                 last_out>>
vars        == <<conv_vars, filter_vars, sm_vars>>

----------------------------------------------------------------------------
(* Option<T>: None is the empty sequence, Some(v) the one-element sequence. *)
None      == << >>
Some(v)   == <<v>>
IsSome(o) == Len(o) = 1
Unwrap(o) == o[1]

(* Machine integers. *)
U16_MAX == 65535
I16_MIN == -32768
I16_MAX == 32767

\* `x as TempX10`: the narrowing cast i32 -> i16 keeps the low 16 bits
AsI16(x) == ((x + 32768) % 65536) - 32768

\* i32 arithmetic is TLC's own: TLC integers are 32-bit and an overflow stops
\* the check with an error, as an overflow panics in a debug build.

\* Rust's `/` on signed integers truncates toward zero (d > 0 here)
TruncDiv(n, d) == IF n >= 0 THEN n \div d ELSE -((-n) \div d)

Safe   == "Safe"
Unsafe == "Unsafe"

----------------------------------------------------------------------------
(* REQ_FUNC_001: adc_to_temp_x10 *)

ADC_MAX  == 4095
SPAN_X10 == 1650
HALF_DIV == 2047
TEMP_MIN == -400
TEMP_MAX == 1250

\* variant: the input is masked to 12 bits instead of clamped
ClampInput_mask(a) == a % (ADC_MAX + 1)

\* let adc = adc_counts.min(4095);
ClampInput(a) == IF a < ADC_MAX THEN a ELSE ADC_MAX

\* variant: the product is formed in 16 bits, without the widening `as i32`
Scaled_u16(adc) ==
    LET numerator == (adc * SPAN_X10) % (U16_MAX + 1)
    IN  TruncDiv(numerator + HALF_DIV, ADC_MAX)

\* variant: plain truncating division, without the half-divisor added
Scaled_trunc(adc) ==
    LET numerator == adc * SPAN_X10
    IN  TruncDiv(numerator, ADC_MAX)

\* numerator = (adc as i32) * 1650;  scaled = (numerator + 2047) / 4095;
Scaled(adc) ==
    LET numerator == adc * SPAN_X10
    IN  TruncDiv(numerator + HALF_DIV, ADC_MAX)

\* variant: the offset is given in whole degrees, -40, instead of tenths
Offset_degrees(scaled) == (TEMP_MIN \div 10) + scaled

\* temp_x10 = -400 + scaled
Offset(scaled) == TEMP_MIN + scaled

\* if temp_x10 < -400 { -400 }  if temp_x10 > 1250 { 1250 }
ClampOutput(t) ==
    LET t1 == IF t < TEMP_MIN THEN TEMP_MIN ELSE t
    IN  IF t1 > TEMP_MAX THEN TEMP_MAX ELSE t1

adc_to_temp_x10(a) == AsI16(ClampOutput(Offset(Scaled(ClampInput(a)))))

----------------------------------------------------------------------------
(* REQ_FUNC_002: Filter *)

WINDOW_LEN == 5
Slots      == 0..(WINDOW_LEN - 1)

\* Filter::new
FilterNew == [window |-> [i \in Slots |-> 0], count |-> 0, index |-> 0, sum |-> 0]

\* variant: the warm-up branch is taken for count < 4
update_warm4(f, sample) ==
    IF f.count < WINDOW_LEN - 1
    THEN [f   |-> [window |-> [f.window EXCEPT ![f.index] = sample],
                   sum    |-> f.sum + sample,
                   index  |-> (f.index + 1) % WINDOW_LEN,
                   count  |-> f.count + 1],
          ret |-> None]
    ELSE LET old  == f.window[f.index]
             sum1 == f.sum - old
             sum2 == sum1 + sample
         IN  [f   |-> [window |-> [f.window EXCEPT ![f.index] = sample],
                       sum    |-> sum2,
                       index  |-> (f.index + 1) % WINDOW_LEN,
                       count  |-> f.count],
              ret |-> Some(AsI16(TruncDiv(sum2, WINDOW_LEN)))]

\* variant: the average is rounded toward minus infinity
update_floor(f, sample) ==
    IF f.count < WINDOW_LEN
    THEN [f   |-> [window |-> [f.window EXCEPT ![f.index] = sample],
                   sum    |-> f.sum + sample,
                   index  |-> (f.index + 1) % WINDOW_LEN,
                   count  |-> f.count + 1],
          ret |-> None]
    ELSE LET old  == f.window[f.index]
             sum1 == f.sum - old
             sum2 == sum1 + sample
         IN  [f   |-> [window |-> [f.window EXCEPT ![f.index] = sample],
                       sum    |-> sum2,
                       index  |-> (f.index + 1) % WINDOW_LEN,
                       count  |-> f.count],
              ret |-> Some(AsI16(sum2 \div WINDOW_LEN))]

\* variant: the evicted value is not subtracted from the sum
update_no_evict(f, sample) ==
    IF f.count < WINDOW_LEN
    THEN [f   |-> [window |-> [f.window EXCEPT ![f.index] = sample],
                   sum    |-> f.sum + sample,
                   index  |-> (f.index + 1) % WINDOW_LEN,
                   count  |-> f.count + 1],
          ret |-> None]
    ELSE LET sum2 == f.sum + sample
         IN  [f   |-> [window |-> [f.window EXCEPT ![f.index] = sample],
                       sum    |-> sum2,
                       index  |-> (f.index + 1) % WINDOW_LEN,
                       count  |-> f.count],
              ret |-> Some(AsI16(TruncDiv(sum2, WINDOW_LEN)))]

\* variant: the average is rounded to the nearest integer
update_round(f, sample) ==
    IF f.count < WINDOW_LEN
    THEN [f   |-> [window |-> [f.window EXCEPT ![f.index] = sample],
                   sum    |-> f.sum + sample,
                   index  |-> (f.index + 1) % WINDOW_LEN,
                   count  |-> f.count + 1],
          ret |-> None]
    ELSE LET old  == f.window[f.index]
             sum1 == f.sum - old
             sum2 == sum1 + sample
         IN  [f   |-> [window |-> [f.window EXCEPT ![f.index] = sample],
                       sum    |-> sum2,
                       index  |-> (f.index + 1) % WINDOW_LEN,
                       count  |-> f.count],
              ret |-> Some(AsI16(TruncDiv(sum2 + 2, WINDOW_LEN)))]

\* variant: the window is started afresh after each value returned
update_restart(f, sample) ==
    IF f.count < WINDOW_LEN
    THEN [f   |-> [window |-> [f.window EXCEPT ![f.index] = sample],
                   sum    |-> f.sum + sample,
                   index  |-> (f.index + 1) % WINDOW_LEN,
                   count  |-> f.count + 1],
          ret |-> None]
    ELSE LET old  == f.window[f.index]
             sum1 == f.sum - old
             sum2 == sum1 + sample
         IN  [f   |-> [window |-> [f.window EXCEPT ![f.index] = sample],
                       sum    |-> sum2,
                       index  |-> (f.index + 1) % WINDOW_LEN,
                       count  |-> 0],
              ret |-> Some(AsI16(TruncDiv(sum2, WINDOW_LEN)))]

\* variant: during warm-up the sample is stored but not added to the sum
update_warm_nosum(f, sample) ==
    IF f.count < WINDOW_LEN
    THEN [f   |-> [window |-> [f.window EXCEPT ![f.index] = sample],
                   sum    |-> f.sum,
                   index  |-> (f.index + 1) % WINDOW_LEN,
                   count  |-> f.count + 1],
          ret |-> None]
    ELSE LET old  == f.window[f.index]
             sum1 == f.sum - old
             sum2 == sum1 + sample
         IN  [f   |-> [window |-> [f.window EXCEPT ![f.index] = sample],
                       sum    |-> sum2,
                       index  |-> (f.index + 1) % WINDOW_LEN,
                       count  |-> f.count],
              ret |-> Some(AsI16(TruncDiv(sum2, WINDOW_LEN)))]

\* variant: after warm-up the write index is not advanced
update_stuck(f, sample) ==
    IF f.count < WINDOW_LEN
    THEN [f   |-> [window |-> [f.window EXCEPT ![f.index] = sample],
                   sum    |-> f.sum + sample,
                   index  |-> (f.index + 1) % WINDOW_LEN,
                   count  |-> f.count + 1],
          ret |-> None]
    ELSE LET old  == f.window[f.index]
             sum1 == f.sum - old
             sum2 == sum1 + sample
         IN  [f   |-> [window |-> [f.window EXCEPT ![f.index] = sample],
                       sum    |-> sum2,
                       index  |-> f.index,
                       count  |-> f.count],
              ret |-> Some(AsI16(TruncDiv(sum2, WINDOW_LEN)))]

\* variant: count is incremented on every call, without saturating
update_count_all(f, sample) ==
    IF f.count < WINDOW_LEN
    THEN [f   |-> [window |-> [f.window EXCEPT ![f.index] = sample],
                   sum    |-> f.sum + sample,
                   index  |-> (f.index + 1) % WINDOW_LEN,
                   count  |-> f.count + 1],
          ret |-> None]
    ELSE LET old  == f.window[f.index]
             sum1 == f.sum - old
             sum2 == sum1 + sample
         IN  [f   |-> [window |-> [f.window EXCEPT ![f.index] = sample],
                       sum    |-> sum2,
                       index  |-> (f.index + 1) % WINDOW_LEN,
                       count  |-> f.count + 1],
              ret |-> Some(AsI16(TruncDiv(sum2, WINDOW_LEN)))]

\* variant: the running sum is kept in 16 bits
update_sum_i16(f, sample) ==
    IF f.count < WINDOW_LEN
    THEN [f   |-> [window |-> [f.window EXCEPT ![f.index] = sample],
                   sum    |-> AsI16(f.sum + sample),
                   index  |-> (f.index + 1) % WINDOW_LEN,
                   count  |-> f.count + 1],
          ret |-> None]
    ELSE LET old  == f.window[f.index]
             sum1 == AsI16(f.sum - old)
             sum2 == AsI16(sum1 + sample)
         IN  [f   |-> [window |-> [f.window EXCEPT ![f.index] = sample],
                       sum    |-> sum2,
                       index  |-> (f.index + 1) % WINDOW_LEN,
                       count  |-> f.count],
              ret |-> Some(AsI16(TruncDiv(sum2, WINDOW_LEN)))]

\* Filter::update: the filter after the call and the value returned
update(f, sample) ==
    IF f.count < WINDOW_LEN
    THEN [f   |-> [window |-> [f.window EXCEPT ![f.index] = sample],
                   sum    |-> f.sum + sample,
                   index  |-> (f.index + 1) % WINDOW_LEN,
                   count  |-> f.count + 1],
          ret |-> None]
    ELSE LET old  == f.window[f.index]
             sum1 == f.sum - old
             sum2 == sum1 + sample
         IN  [f   |-> [window |-> [f.window EXCEPT ![f.index] = sample],
                       sum    |-> sum2,
                       index  |-> (f.index + 1) % WINDOW_LEN,
                       count  |-> f.count],
              ret |-> Some(AsI16(TruncDiv(sum2, WINDOW_LEN)))]

----------------------------------------------------------------------------
(* REQ_FUNC_003/004: StateMachine *)

\* variant: a machine that starts in the alarm state
StateMachineNew_unsafe(high, low) ==
    [high_x10 |-> high, low_x10 |-> low, state |-> Unsafe]

\* StateMachine::new
StateMachineNew(high, low) ==
    [high_x10 |-> high, low_x10 |-> low, state |-> Safe]

\* variant: the rising comparison is strict
evaluate_gt(s, t, high, low) ==
    IF s = Safe
    THEN IF t > high THEN Unsafe ELSE s
    ELSE IF t <= low THEN Safe ELSE s

\* variant: the falling comparison is strict
evaluate_lt(s, t, high, low) ==
    IF s = Safe
    THEN IF t >= high THEN Unsafe ELSE s
    ELSE IF t < low THEN Safe ELSE s

\* variant: one threshold, no hysteresis: recovery as soon as t is below high
evaluate_single(s, t, high, low) ==
    IF s = Safe
    THEN IF t >= high THEN Unsafe ELSE s
    ELSE IF t < high THEN Safe ELSE s

\* variant: the alarm latches, Unsafe is never left
evaluate_latch(s, t, high, low) ==
    IF s = Safe
    THEN IF t >= high THEN Unsafe ELSE s
    ELSE s

\* variant: the falling comparison is the wrong way round
evaluate_flip(s, t, high, low) ==
    IF s = Safe
    THEN IF t >= high THEN Unsafe ELSE s
    ELSE IF t >= low THEN Safe ELSE s

\* StateMachine::evaluate: the state after the call (also the value returned)
evaluate(s, t, high, low) ==
    IF s = Safe
    THEN IF t >= high THEN Unsafe ELSE s
    ELSE IF t <= low THEN Safe ELSE s

----------------------------------------------------------------------------
(* Input sets and bounds *)

\* samples fed to the filter: both ends of i16, and small values of both signs
SampleValues == {I16_MIN, -7, 6, I16_MAX}
MaxCalls     == 7      \* update calls per run

\* thresholds and temperatures for the state machine
ThresholdValues == {I16_MIN, 950, 1000, I16_MAX}
TempValues      == {I16_MIN, 949, 950, 951, 999, 1000, 1001, I16_MAX}
MaxBandRun      == 3   \* the in-band run counter saturates here

\* second inputs for adc_to_temp_x10, relative to the first
Deltas == {-4096, -4095, -1, 0, 1, 4095, 4096}

\* raw samples and thresholds for the pipeline: 3472 converts to 999, 3475 to
\* 1000, 0 to -400 and every input above 4095 to 1250
RawValues      == {0, 3472, 3475, U16_MAX}
PipeHighValues == {1000}
PipeLowValues  == {950, 999}

\* inputs every converted input is compared with
Probes == {0, 1, 2, 1024, 2047, 2048, 4094, 4095, 4096, 8191, 32767, 32768, U16_MAX}

----------------------------------------------------------------------------
(* Initial states: Filter::new(), StateMachine::new(high, low), no call made *)

ConvInit ==
    /\ adc_counts = None /\ temp_x10 = None
    /\ prev_adc = None   /\ prev_temp = None
    /\ raws = << >>

FilterInit ==
    /\ window = FilterNew.window /\ count = FilterNew.count
    /\ index = FilterNew.index   /\ sum = FilterNew.sum
    /\ out = None /\ fed = << >>

SMInit(H, L) ==
    /\ \E h \in H, l \in L :
          LET m == StateMachineNew(h, l)
          IN  /\ high_x10 = m.high_x10
              /\ low_x10  = m.low_x10
              /\ state    = m.state
    /\ ret = None /\ arg = None /\ before = None
    /\ band_from = None /\ band_run = 0
    /\ last_out = None

----------------------------------------------------------------------------
(* Actions *)

\* one call adc_to_temp_x10(a)
Convert(a) ==
    /\ prev_adc'   = adc_counts
    /\ prev_temp'  = temp_x10
    /\ adc_counts' = Some(a)
    /\ temp_x10'   = Some(adc_to_temp_x10(a))
    /\ UNCHANGED <<raws, filter_vars, sm_vars>>

\* the first call takes any u16, a later one a neighbour of the previous input
ConvertAny ==
    \/ /\ adc_counts = None
       /\ \E a \in 0..U16_MAX : Convert(a)
    \/ /\ adc_counts # None
       /\ \E d \in Deltas :
             /\ Unwrap(adc_counts) + d \in 0..U16_MAX
             /\ Convert(Unwrap(adc_counts) + d)

\* one call filter.update(sample)
Update(sample) ==
    /\ Len(fed) < MaxCalls
    /\ LET r == update([window |-> window, count |-> count,
                        index |-> index, sum |-> sum], sample)
       IN  /\ window' = r.f.window
           /\ count'  = r.f.count
           /\ index'  = r.f.index
           /\ sum'    = r.f.sum
           /\ out'    = r.ret
    /\ fed' = Append(fed, sample)
    /\ UNCHANGED <<conv_vars, sm_vars>>

UpdateAny == \E s \in SampleValues : Update(s)

InBand(t) == low_x10 < t /\ t < high_x10

\* one call sm.evaluate(t)
Evaluate(t) ==
    /\ before' = Some(state)
    /\ arg'    = Some(t)
    /\ state'  = evaluate(state, t, high_x10, low_x10)
    /\ ret'    = Some(state')
    /\ IF InBand(t)
       THEN /\ band_from' = IF band_run = 0 THEN Some(state) ELSE band_from
            /\ band_run'  = IF band_run < MaxBandRun THEN band_run + 1 ELSE band_run
       ELSE /\ band_from' = None
            /\ band_run'  = 0
    /\ last_out' = IF InBand(t) THEN last_out ELSE Some(t)
    /\ UNCHANGED <<high_x10, low_x10, conv_vars, filter_vars>>

EvaluateAny == \E t \in TempValues : Evaluate(t)

\* one tick of the pipeline: raw sample -> adc_to_temp_x10 -> Filter::update ->
\* StateMachine::evaluate on the value the filter returns, if it returns one
Pipeline(raw) ==
    /\ Len(raws) < MaxCalls
    /\ LET t == adc_to_temp_x10(raw)
           r == update([window |-> window, count |-> count,
                        index |-> index, sum |-> sum], t)
       IN  /\ raws'       = Append(raws, raw)
           /\ prev_adc'   = adc_counts
           /\ prev_temp'  = temp_x10
           /\ adc_counts' = Some(raw)
           /\ temp_x10'   = Some(t)
           /\ window'     = r.f.window
           /\ count'      = r.f.count
           /\ index'      = r.f.index
           /\ sum'        = r.f.sum
           /\ out'        = r.ret
           /\ fed'        = Append(fed, t)
           /\ IF IsSome(r.ret)
              THEN LET v == Unwrap(r.ret)
                   IN  /\ before' = Some(state)
                       /\ arg'    = Some(v)
                       /\ state'  = evaluate(state, v, high_x10, low_x10)
                       /\ ret'    = Some(state')
                       /\ IF InBand(v)
                          THEN /\ band_from' = IF band_run = 0 THEN Some(state)
                                                               ELSE band_from
                               /\ band_run'  = IF band_run < MaxBandRun
                                               THEN band_run + 1 ELSE band_run
                          ELSE /\ band_from' = None
                               /\ band_run'  = 0
                       /\ last_out' = IF InBand(v) THEN last_out ELSE Some(v)
              ELSE UNCHANGED <<state, ret, arg, before, band_from, band_run,
                               last_out>>
    /\ UNCHANGED <<high_x10, low_x10>>

PipelineAny == \E raw \in RawValues : Pipeline(raw)

----------------------------------------------------------------------------
(* Specifications *)

InitConv   == ConvInit /\ FilterInit /\ SMInit({1000}, {950})
InitFilter == ConvInit /\ FilterInit /\ SMInit({1000}, {950})
InitSM     == ConvInit /\ FilterInit /\ SMInit(ThresholdValues, ThresholdValues)

Init       == ConvInit /\ FilterInit /\ SMInit(PipeHighValues, PipeLowValues)
Next       == PipelineAny

Spec       == Init       /\ [][Next]_vars
SpecConv   == InitConv   /\ [][ConvertAny]_vars
SpecFilter == InitFilter /\ [][UpdateAny]_vars
SpecSM     == InitSM     /\ [][EvaluateAny]_vars

----------------------------------------------------------------------------
(* Helpers for the properties *)

RECURSIVE SumSeq(_)
SumSeq(s) == IF s = << >> THEN 0 ELSE Head(s) + SumSeq(Tail(s))

\* q is n / d rounded toward zero (d > 0): the remainder has the sign of n
IsTruncQuot(q, n, d) ==
    LET r == n - d * q
    IN  /\ n >= 0 => (0 <= r /\ r < d)
        /\ n <= 0 => (-d < r /\ r <= 0)

Abs(x) == IF x < 0 THEN -x ELSE x

\* the outputs of feeding the samples of s, in order, to the filter f
RECURSIVE Outputs(_, _)
Outputs(f, s) ==
    IF s = << >> THEN << >>
    ELSE LET r == update(f, Head(s)) IN <<r.ret>> \o Outputs(r.f, Tail(s))

\* the sample sequence of test_filter_noise_rejection
NoisySamples == <<500, 600, 450, 550, 500, 480, 520, 490>>

----------------------------------------------------------------------------
(* Properties of StateMachine (SpecSM) *)

\* C1: from Safe, evaluate(t) leaves the machine Unsafe if and only if
\* t >= high_x10 (equality trips); otherwise it remains Safe. The value
\* returned is the state left behind.
C1_SafeTrip ==
    (before = Some(Safe)) =>
        /\ (state = Unsafe) <=> (Unwrap(arg) >= high_x10)
        /\ (state = Safe)   <=> (Unwrap(arg) < high_x10)
        /\ ret = Some(state)

\* C1 happens: an evaluation from Safe at exactly the high threshold trips
C1_Witness ==
    before = Some(Safe) /\ arg = Some(high_x10) /\ state = Unsafe

\* C2: from Unsafe, evaluate(t) leaves the machine Safe if and only if
\* t <= low_x10 (equality recovers); otherwise it remains Unsafe.
C2_UnsafeRecover ==
    (before = Some(Unsafe)) =>
        /\ (state = Safe)   <=> (Unwrap(arg) <= low_x10)
        /\ (state = Unsafe) <=> (Unwrap(arg) > low_x10)
        /\ ret = Some(state)

\* C2 happens: an evaluation from Unsafe at exactly the low threshold recovers
C2_Witness ==
    before = Some(Unsafe) /\ arg = Some(low_x10) /\ state = Safe

\* C3: with low_x10 < high_x10, during a run of consecutive evaluations whose
\* temperatures all lie strictly between the thresholds, whatever its length,
\* the state is the one the machine had when the run began.
C3_HysteresisHold ==
    (low_x10 < high_x10 /\ band_run > 0) => state = Unwrap(band_from)

\* C3 happens: a run of at least MaxBandRun in-band evaluations that began in
\* Unsafe, with thresholds (1000, 950)
C3_Witness ==
    /\ high_x10 = 1000 /\ low_x10 = 950
    /\ band_run = MaxBandRun /\ band_from = Some(Unsafe) /\ state = Unsafe

----------------------------------------------------------------------------
(* Properties of Filter (SpecFilter) *)

\* C4 as stated: on a fresh Filter each of the first 4 calls to update
\* returns no value, and the 5th call returns the truncated average of the
\* first 5 samples.
C4_FifthCallReturns ==
    /\ (1 <= Len(fed) /\ Len(fed) <= 4) => out = None
    /\ Len(fed) = 5 =>
          /\ IsSome(out)
          /\ IsTruncQuot(Unwrap(out), SumSeq(fed), 5)

\* C4 as the code has it: on a fresh Filter each of the first 5 calls to
\* update returns no value, and the 6th call returns a value, the truncated
\* average of the 5 samples of calls 2..6 (516 for 600, 450, 550, 500, 480
\* after 500).
C4_WarmUp ==
    /\ Len(fed) <= 5 => out = None
    /\ Len(fed) = 6 =>
          /\ IsSome(out)
          /\ IsTruncQuot(Unwrap(out), SumSeq(SubSeq(fed, 2, 6)), 5)
    /\ SubSeq(Outputs(FilterNew, NoisySamples), 1, 6)
          = <<None, None, None, None, None, Some(516)>>

\* C4 happens: the 6th call has returned, and the first sample differs from
\* the sixth, so the average of calls 1..5 is not the one of calls 2..6
C4_Witness ==
    Len(fed) = 6 /\ IsSome(out) /\ fed[1] # fed[6]

\* C5: every value update returns is the sum of the 5 most recently supplied
\* samples (the current one included) divided by 5 and truncated toward zero,
\* also when the sum is negative.
C5_TruncatedAverage ==
    IsSome(out) =>
        /\ Len(fed) >= 5
        /\ IsTruncQuot(Unwrap(out),
                       SumSeq(SubSeq(fed, Len(fed) - 4, Len(fed))), 5)

\* C5 happens: a value was returned for a negative sum that 5 does not divide
C5_Witness ==
    /\ IsSome(out)
    /\ LET n == SumSeq(SubSeq(fed, Len(fed) - 4, Len(fed)))
       IN  n < 0 /\ n % 5 # 0

\* C6: in every state reachable from Filter::new by update calls, sum is the
\* arithmetic sum of the 5 values in the window buffer.
C6_SumInvariant ==
    sum = window[0] + window[1] + window[2] + window[3] + window[4]

\* C6 happens: after warm-up, an update has evicted a value that differs from
\* the sample that replaced it
C6_Witness ==
    /\ Len(fed) >= 7
    /\ fed[Len(fed)] # fed[Len(fed) - 5]
    /\ sum # 0

----------------------------------------------------------------------------
(* Properties of adc_to_temp_x10 (SpecConv) *)

\* C7: for every raw input greater than 4095, up to the largest u16,
\* adc_to_temp_x10(input) = adc_to_temp_x10(4095): the input is clamped, and a
\* value is returned.
C7_InputClamp ==
    (IsSome(adc_counts) /\ Unwrap(adc_counts) > 4095) =>
        /\ IsSome(temp_x10)
        /\ Unwrap(temp_x10) = adc_to_temp_x10(4095)

\* C7 happens: the largest u16 was converted
C7_Witness ==
    adc_counts = Some(U16_MAX) /\ IsSome(temp_x10)

\* C8: for every raw input adc_to_temp_x10 returns a value in [-400, 1250];
\* adc_to_temp_x10(0) = -400 and adc_to_temp_x10(4095) = 1250.
C8_OutputRange ==
    IsSome(temp_x10) =>
        /\ -400 <= Unwrap(temp_x10) /\ Unwrap(temp_x10) <= 1250
        /\ adc_counts = Some(0)    => temp_x10 = Some(-400)
        /\ adc_counts = Some(4095) => temp_x10 = Some(1250)

\* C8 happens: both ends of the input domain were converted, one call after
\* the other, and gave the two ends of the range
C8_Witness ==
    /\ prev_adc = Some(0)      /\ prev_temp = Some(-400)
    /\ adc_counts = Some(4095) /\ temp_x10 = Some(1250)

\* C9: for raw inputs a <= b anywhere in the u16 domain,
\* adc_to_temp_x10(a) <= adc_to_temp_x10(b). Checked on every pair of inputs
\* whose difference is in Deltas (the neighbours b = a + 1 among them, from
\* which the other pairs follow), and on every input against each of Probes.
C9_Monotonic ==
    (IsSome(prev_adc) /\ IsSome(adc_counts)) =>
        /\ Unwrap(prev_adc) <= Unwrap(adc_counts)
              => Unwrap(prev_temp) <= Unwrap(temp_x10)
        /\ Unwrap(adc_counts) <= Unwrap(prev_adc)
              => Unwrap(temp_x10) <= Unwrap(prev_temp)
        /\ \A p \in Probes :
              /\ p <= Unwrap(adc_counts)
                    => adc_to_temp_x10(p) <= Unwrap(temp_x10)
              /\ Unwrap(adc_counts) <= p
                    => Unwrap(temp_x10) <= adc_to_temp_x10(p)

\* C9 happens: two neighbouring inputs in range gave different outputs, the
\* larger input the larger output
C9_Witness ==
    /\ IsSome(prev_adc) /\ IsSome(adc_counts)
    /\ Unwrap(adc_counts) = Unwrap(prev_adc) + 1
    /\ Unwrap(adc_counts) <= 4095
    /\ Unwrap(prev_temp) < Unwrap(temp_x10)

\* C10: for every raw input x, with a = min(x, 4095),
\* adc_to_temp_x10(x) = -400 + ((a * 1650 + 2047) div 4095), and
\* r = output + 400 is the integer nearest to a * 1650 / 4095:
\* |4095 * r - 1650 * a| <= 2047.
C10_Rounding ==
    IsSome(temp_x10) =>
        LET x == Unwrap(adc_counts)
            a == IF x <= 4095 THEN x ELSE 4095
            r == Unwrap(temp_x10) + 400
        IN  /\ Unwrap(temp_x10) = -400 + ((a * 1650 + 2047) \div 4095)
            /\ Abs(4095 * r - 1650 * a) <= 2047

\* C10 happens: an input whose quotient is rounded up (2 * 1650 / 4095 = 0.8)
C10_Witness ==
    adc_counts = Some(2) /\ temp_x10 = Some(-399)

----------------------------------------------------------------------------
(* Further properties of Filter (SpecFilter) and StateMachine (SpecSM) *)

\* C11: for any bounds lo <= hi, if every sample fed to a fresh Filter lies in
\* [lo, hi], every value update returns lies in [lo, hi]; so for the test's
\* sequence, bounded by [450, 600].
C11_OutputBound ==
    /\ \A lo \in SampleValues, hi \in SampleValues :
          (/\ lo <= hi
           /\ \A i \in 1..Len(fed) : lo <= fed[i] /\ fed[i] <= hi
           /\ IsSome(out))
          => (lo <= Unwrap(out) /\ Unwrap(out) <= hi)
    /\ \A i \in 1..Len(NoisySamples) :
          LET o == Outputs(FilterNew, NoisySamples)[i]
          IN  IsSome(o) => (450 <= Unwrap(o) /\ Unwrap(o) <= 600)

\* C11 happens: a value was returned for samples that all lie in [-7, 6], with
\* both ends among the 5 averaged
C11_Witness ==
    /\ IsSome(out)
    /\ \A i \in 1..Len(fed) : fed[i] \in {-7, 6}
    /\ \E i, j \in (Len(fed) - 4)..Len(fed) : fed[i] = -7 /\ fed[j] = 6

\* C12: a machine freshly constructed by StateMachine::new(high, low), for any
\* threshold pair, is in state Safe before any call to evaluate.
C12_InitiallySafe ==
    (ret = None) => state = Safe

\* C12 happens: the machine of the test, new(1000, 950), before any evaluate
C12_Witness ==
    ret = None /\ arg = None /\ high_x10 = 1000 /\ low_x10 = 950 /\ state = Safe

\* C14: from every reachable state of the machine some temperature moves it
\* to the other state; there is no terminal state.
C14_NoTerminalState ==
    ENABLED (EvaluateAny /\ state' # state)

\* C14 happens: the machine has gone from Safe to Unsafe and back to Safe,
\* with the low threshold at the bottom of the i16 range
C14_Witness ==
    before = Some(Unsafe) /\ state = Safe /\ low_x10 = I16_MIN

\* C15: once a call to update has returned a value, every later call to
\* update on that Filter returns a value, whatever the samples.
C15_NeverResets ==
    [][IsSome(out) => IsSome(out')]_vars

\* C15 happens: a second value was returned, after the first one
C15_Witness ==
    Len(fed) >= 7 /\ IsSome(out)

\* C16: a call to update returns no value if and only if fewer than 5 samples
\* had been accepted before it; such a call still stores the sample in the
\* slot at index, adds it to sum, advances index modulo 5 and increments
\* count.
C16_NoValueIffWarmUp ==
    [][fed' # fed =>
          LET n      == Len(fed)
              sample == fed'[n + 1]
          IN  /\ (out' = None) <=> (n < 5)
              /\ n < 5 =>
                    /\ window' = [window EXCEPT ![index] = sample]
                    /\ sum'    = sum + sample
                    /\ index'  = (index + 1) % 5
                    /\ count'  = count + 1]_vars

\* C16 happens: the 5th call has returned no value and has stored its sample
C16_Witness ==
    /\ Len(fed) = 5 /\ out = None
    /\ window[4] = fed[5] /\ fed[5] # 0
    /\ count = 5 /\ index = 0

\* C17: after n >= 5 calls the window holds exactly the 5 most recently
\* supplied samples, and window[index], the slot the next update overwrites,
\* holds the oldest of them; the slots after it hold the later ones in order.
C17_OldestFirst ==
    Len(fed) >= 5 =>
        \A j \in 0..4 : window[(index + j) % 5] = fed[Len(fed) - 4 + j]

\* C17 happens: two values have been evicted, and the oldest sample in the
\* window differs from the newest
C17_Witness ==
    /\ Len(fed) = 7
    /\ window[index] = fed[3] /\ fed[3] # fed[7] /\ fed[3] # fed[2]

\* C18: in every reachable Filter state 0 <= count <= 5 and 0 <= index <= 4,
\* count = min(number of update calls, 5) and index = (number of calls) mod 5.
C18_Bookkeeping ==
    /\ 0 <= count /\ count <= 5
    /\ 0 <= index /\ index <= 4
    /\ count = (IF Len(fed) < 5 THEN Len(fed) ELSE 5)
    /\ index = Len(fed) % 5

\* C18 happens: after 7 calls count has saturated and index has wrapped
C18_Witness ==
    Len(fed) = 7 /\ count = 5 /\ index = 2

\* C19: for samples from the whole i16 range the running sum stays within
\* [-5 * 32768, 5 * 32767] and is the exact sum of the samples held (at most
\* 5), and every value returned is the exact truncated average, a value of
\* the i16 range: neither the sum nor the narrowing cast wraps.
C19_NoOverflow ==
    LET n    == Len(fed)
        held == SumSeq(SubSeq(fed, IF n > 5 THEN n - 4 ELSE 1, n))
    IN  /\ -163840 <= sum /\ sum <= 163835
        /\ sum = held
        /\ IsSome(out) =>
              /\ IsTruncQuot(Unwrap(out), held, 5)
              /\ -32768 <= Unwrap(out) /\ Unwrap(out) <= 32767

\* C19 happens: five samples at the bottom of the i16 range were averaged
C19_Witness ==
    sum = -163840 /\ out = Some(I16_MIN)

\* C20: with low_x10 < high_x10 the state of a fresh machine after any
\* sequence of evaluate calls is decided by the latest temperature outside
\* the open band (low_x10, high_x10): Unsafe if it is >= high_x10, Safe if it
\* is <= low_x10, Safe if there was none; and evaluating the same temperature
\* a second time in a row leaves the state as the first evaluation left it.
C20_TraceCharacterisation ==
    /\ [](low_x10 < high_x10 =>
            state = IF last_out = None THEN Safe
                    ELSE IF Unwrap(last_out) >= high_x10 THEN Unsafe
                    ELSE Safe)
    /\ [][(low_x10 < high_x10 /\ IsSome(arg) /\ arg' = arg)
             => state' = state]_vars

\* C20 happens: the machine is Unsafe because of an earlier temperature, the
\* evaluations since then having been in the band
C20_Witness ==
    /\ low_x10 < high_x10
    /\ IsSome(last_out) /\ Unwrap(last_out) >= high_x10
    /\ band_run >= 2 /\ arg # last_out
    /\ state = Unsafe

----------------------------------------------------------------------------
(* Property of the pipeline (Spec) *)

\* the conversion and the 5-sample truncated average, written out again
RefConv(x) ==
    LET a == IF x <= 4095 THEN x ELSE 4095
    IN  -400 + ((a * 1650 + 2047) \div 4095)

RefAvg(n) == IF n >= 0 THEN n \div 5 ELSE -((-n) \div 5)

\* the smoothed temperatures of a raw sequence rs, ahead of any evaluation:
\* one for each call from the 6th on, the average of the latest 5 conversions
RECURSIVE Smoothed(_, _)
Smoothed(rs, k) ==
    IF k > Len(rs) THEN << >>
    ELSE <<RefAvg(RefConv(rs[k - 4]) + RefConv(rs[k - 3]) + RefConv(rs[k - 2])
                  + RefConv(rs[k - 1]) + RefConv(rs[k]))>>
         \o Smoothed(rs, k + 1)

\* a machine in isolation: the state it is left in by the temperatures ts
RECURSIVE FedDirectly(_, _, _, _)
FedDirectly(s, ts, high, low) ==
    IF ts = << >> THEN s
    ELSE FedDirectly(evaluate(s, Head(ts), high, low), Tail(ts), high, low)

\* C13: after any sequence of raw samples put through adc_to_temp_x10,
\* Filter::update and StateMachine::evaluate (on each value the filter
\* returns), the machine is in the state in which a second machine with the
\* same thresholds is left by the precomputed smoothed temperatures.
C13_EndToEnd ==
    state = FedDirectly(StateMachineNew(high_x10, low_x10).state,
                        Smoothed(raws, 6), high_x10, low_x10)

\* C13 happens: 7 raw samples gave two smoothed temperatures, the first of
\* which tripped the machine and the second of which recovered it
C13_Witness ==
    Len(raws) = 7 /\ before = Some(Unsafe) /\ state = Safe

====
